---------------------------- MODULE Spec2Model ----------------------------
(***************************************************************************)
(* A model of pycavy: the object-file parser (ObjectFile), the typed       *)
(* deserializer (Deserializer), the result assembler (CirqRunnable.run)    *)
(* and the lazy dependency loader (dependencies.require).                  *)
(*                                                                         *)
(* Python values are tagged records [t |-> type, v |-> payload]; a dict is *)
(* a sequence of <<key, value>> pairs in insertion order.  The outcome of  *)
(* a call is a record [kind, val, args]: kind "ok" with the returned value *)
(* in val, or the name of the exception raised with its arguments in args. *)
(***************************************************************************)
EXTENDS Integers, Sequences, FiniteSets, TLC

VARIABLES
    emitted,                \* the parts the compiler wrote into the object file
    obj_code,               \* text of the object file read by ObjectFile.__init__
    self,                   \* the ObjectFile instance with its attributes, or None
    value,                  \* the binding value handed to Deserializer.deserialize
    bindings,               \* CirqRunnable.bindings: a dict name -> binding value
    measurements,           \* Deserializer.measurements: qubit index -> outcome
    result,                 \* outcome of the last call
    LOADED_DEPENDENCIES,    \* dependencies.LOADED_DEPENDENCIES
    installed,              \* the Python packages importlib can import here
    deps,                   \* the dependencies required by the function called last
    pc                      \* position of the caller

vars == <<emitted, obj_code, self, value, bindings, measurements, result,
          LOADED_DEPENDENCIES, installed, deps, pc>>

fileVars == <<emitted, obj_code, self>>
runVars == <<value, bindings, measurements>>
depVars == <<LOADED_DEPENDENCIES, installed, deps>>

---------------------------------------------------------------------------
(* Bounds of the model *)

\* qubit indices are 0..MaxQubit
MaxQubit == 2
\* a Q_U8/Q_U16/Q_U32 payload holds at most MaxBits qubit indices
MaxBits == 3
\* binding values nest Array and Measured at most MaxDepth deep
MaxDepth == 2
\* an object file declares at most MaxBindings names
MaxBindings == 2
\* the assembly body of an object file holds at most MaxBody characters
MaxBody == 2
\* a function requires at most MaxDeps dependencies
MaxDeps == 2

Qubits == 0..MaxQubit

---------------------------------------------------------------------------
(* Python values and call outcomes *)

None == [t |-> "null", v |-> FALSE]
JBool(b) == [t |-> "bool", v |-> b]
JInt(n) == [t |-> "int", v |-> n]
JStr(s) == [t |-> "str", v |-> s]
JList(items) == [t |-> "list", v |-> items]
JObj(pairs) == [t |-> "obj", v |-> pairs]

\* a Python str as the sequence of its symbols
PyText(syms) == [t |-> "text", v |-> syms]

Ok(v) == [kind |-> "ok", val |-> v, args |-> <<>>]
Raise(exc, a) == [kind |-> exc, val |-> None, args |-> a]
Pending == [kind |-> "pending", val |-> None, args |-> <<>>]

\* 1 << i
RECURSIVE Shl1(_)
Shl1(i) == IF i = 0 THEN 1 ELSE 2 * Shl1(i - 1)

Failed(r) == r.kind # "ok"

\* index of the first outcome of seq that is an exception, 0 when none is
FirstFailed(seq) ==
    IF \E i \in 1..Len(seq) : Failed(seq[i])
    THEN CHOOSE i \in 1..Len(seq) :
            Failed(seq[i]) /\ \A j \in 1..(i - 1) : ~Failed(seq[j])
    ELSE 0

---------------------------------------------------------------------------
(* Text.  A text is a sequence of symbols: single characters, and the      *)
(* lexemes of JSON (a string literal, a number, a bare word).              *)

Ch(c) == [c |-> "ch", s |-> c, n |-> 0]
Str(x) == [c |-> "str", s |-> x, n |-> 0]
Num(k) == [c |-> "num", s |-> "", n |-> k]
Kw(w) == [c |-> "kw", s |-> w, n |-> 0]

NL == Ch("\n")
Slash == Ch("/")
Whitespace == {Ch(" "), Ch("\t"), Ch("\r"), NL}

\* text[from..], from <= Len(text) + 1
From(text, from) == SubSeq(text, from, Len(text))

\* str.split(sep='\n'): cut at every line separator
RECURSIVE split_every(_)
split_every(text) ==
    IF \E i \in 1..Len(text) : text[i] = NL
    THEN LET i == CHOOSE k \in 1..Len(text) :
                    text[k] = NL /\ \A j \in 1..(k - 1) : text[j] # NL
         IN  <<SubSeq(text, 1, i - 1)>> \o split_every(From(text, i + 1))
    ELSE <<text>>

\* str.split(sep='\n', maxsplit=1): cut at the first line separator if any
split_once(text) ==
    IF \E i \in 1..Len(text) : text[i] = NL
    THEN LET i == CHOOSE k \in 1..Len(text) :
                    text[k] = NL /\ \A j \in 1..(k - 1) : text[j] # NL
         IN  <<SubSeq(text, 1, i - 1), From(text, i + 1)>>
    ELSE <<text>>

\* str.lstrip('//'): drop every leading character of the set {'/'}
RECURSIVE lstrip_slashes(_)
lstrip_slashes(text) ==
    IF text # <<>> /\ text[1] = Slash THEN lstrip_slashes(From(text, 2)) ELSE text

---------------------------------------------------------------------------
(* json.loads, as called by ObjectFile.__parse_asm *)

NoParse == [ok |-> FALSE, val |-> None, next |-> 0]
Parsed(v, next) == [ok |-> TRUE, val |-> v, next |-> next]

RECURSIVE skip_ws(_, _)
skip_ws(text, i) ==
    IF i <= Len(text) /\ text[i] \in Whitespace THEN skip_ws(text, i + 1) ELSE i

\* d[key] = v on a dict: a key already there keeps its place
dict_set(pairs, key, v) ==
    IF \E i \in 1..Len(pairs) : pairs[i][1] = key
    THEN [i \in 1..Len(pairs) |->
            IF pairs[i][1] = key THEN <<key, v>> ELSE pairs[i]]
    ELSE Append(pairs, <<key, v>>)

Keywords == {"true", "false", "null"}
keyword_value(w) ==
    CASE w = "true" -> JBool(TRUE)
      [] w = "false" -> JBool(FALSE)
      [] OTHER -> None

RECURSIVE parse_value(_, _)
RECURSIVE parse_members(_, _, _)
RECURSIVE parse_elements(_, _, _)

\* the members of an object from the key at i on, acc the members so far
parse_members(text, i, acc) ==
    IF i > Len(text) \/ text[i].c # "str" THEN NoParse
    ELSE LET j == skip_ws(text, i + 1)
         IN  IF j > Len(text) \/ text[j] # Ch(":") THEN NoParse
             ELSE LET r == parse_value(text, j + 1)
                      k == skip_ws(text, r.next)
                      acc2 == dict_set(acc, text[i].s, r.val)
                  IN  IF ~r.ok \/ k > Len(text) THEN NoParse
                      ELSE IF text[k] = Ch("}") THEN Parsed(JObj(acc2), k + 1)
                      ELSE IF text[k] = Ch(",")
                           THEN parse_members(text, skip_ws(text, k + 1), acc2)
                      ELSE NoParse

\* the elements of an array from the value at i on, acc the elements so far
parse_elements(text, i, acc) ==
    LET r == parse_value(text, i)
        k == skip_ws(text, r.next)
        acc2 == Append(acc, r.val)
    IN  IF ~r.ok \/ k > Len(text) THEN NoParse
        ELSE IF text[k] = Ch("]") THEN Parsed(JList(acc2), k + 1)
        ELSE IF text[k] = Ch(",") THEN parse_elements(text, k + 1, acc2)
        ELSE NoParse

parse_value(text, from) ==
    LET i == skip_ws(text, from)
    IN  IF i > Len(text) THEN NoParse
        ELSE LET sym == text[i]
                 j == skip_ws(text, i + 1)
             IN  CASE sym.c = "str" -> Parsed(JStr(sym.s), i + 1)
                   [] sym.c = "num" -> Parsed(JInt(sym.n), i + 1)
                   [] sym.c = "kw" ->
                        IF sym.s \in Keywords
                        THEN Parsed(keyword_value(sym.s), i + 1)
                        ELSE NoParse
                   [] sym = Ch("{") ->
                        IF j <= Len(text) /\ text[j] = Ch("}")
                        THEN Parsed(JObj(<<>>), j + 1)
                        ELSE parse_members(text, j, <<>>)
                   [] sym = Ch("[") ->
                        IF j <= Len(text) /\ text[j] = Ch("]")
                        THEN Parsed(JList(<<>>), j + 1)
                        ELSE parse_elements(text, j, <<>>)
                   [] OTHER -> NoParse

json_loads(text) ==
    LET r == parse_value(text, 1)
    IN  IF r.ok /\ skip_ws(text, r.next) > Len(text)
        THEN Ok(r.val)
        ELSE Raise("JSONDecodeError", <<>>)

---------------------------------------------------------------------------
(* ObjectFile (compilation.py) *)

\* bindings, qasm = qasm.split(sep='\n', maxsplit=1)
\* bindings = json.loads(bindings.lstrip('//'))
parse_asm(qasm) ==
    LET parts == split_once(qasm)
    IN  IF Len(parts) # 2 THEN Raise("ValueError", <<>>)
        ELSE LET loaded == json_loads(lstrip_slashes(parts[1]))
             IN  IF Failed(loaded) THEN loaded
                 ELSE Ok(JList(<<loaded.val, PyText(parts[2])>>))

\* the attributes ObjectFile.__init__ sets on the instance
ObjectFile(b, qasm) ==
    [t |-> "ObjectFile",
     v |-> [__bindings |-> b, __qasm |-> qasm, __prints |-> None]]

\* reading an attribute of an instance
getattr(obj, name) ==
    IF name \in DOMAIN obj.v THEN Ok(obj.v[name])
    ELSE Raise("AttributeError", <<JStr(name)>>)

\* return self.__obj_code
to_qasm(obj) == getattr(obj, "__obj_code")

---------------------------------------------------------------------------
(* Deserializer (compilation.py) *)

\* a lookup that answers False for a key the dict does not hold
getitem_default(m, key) ==
    IF key.t = "int" /\ key.v \in DOMAIN m
    THEN Ok(JBool(m[key.v]))
    ELSE Ok(JBool(FALSE))

\* self.measurements[key] on a dict keyed by qubit index
getitem(m, key) ==
    IF key.t = "int" /\ key.v \in DOMAIN m
    THEN Ok(JBool(m[key.v]))
    ELSE Raise("KeyError", <<key>>)

\* the keys of Deserializer.d_table
d_table == {"Bool", "Q_Bool", "Q_U8", "Q_U16", "Q_U32", "Array", "Measured"}

\* next(iter(value.items()))
split_value(v) == v.v[1]

RECURSIVE deserialize(_, _)

deserialize_classical(m, data) == Ok(data)

deserialize_q_bool(m, data) ==
    LET bit == getitem(m, data)
    IN  IF Failed(bit) THEN bit ELSE Ok(JBool(bit.val.v))

\* the loop "for i, bit in enumerate(bits): num += (1 << i) * bit",
\* entered with the bits from position i on still to add
RECURSIVE add_bits(_, _, _)
add_bits(bits, i, num) ==
    IF i > Len(bits) THEN num
    ELSE add_bits(bits, i + 1,
                  num + Shl1(i - 1) * (IF bits[i].val.v THEN 1 ELSE 0))

\* the sum with a bit placed by its qubit index, not by its position
deserialize_q_unsigned_by_index(m, data) ==
    LET bits == [i \in 1..Len(data.v) |-> getitem(m, data.v[i])]
        bad == FirstFailed(bits)
        RECURSIVE add(_, _)
        add(i, num) ==
            IF i > Len(bits) THEN num
            ELSE add(i + 1, num + Shl1(data.v[i].v)
                                  * (IF bits[i].val.v THEN 1 ELSE 0))
    IN  IF bad # 0 THEN bits[bad] ELSE Ok(JInt(add(1, 0)))

deserialize_q_unsigned(m, data) ==
    LET bits == [i \in 1..Len(data.v) |-> getitem(m, data.v[i])]
        bad == FirstFailed(bits)
    IN  IF bad # 0 THEN bits[bad] ELSE Ok(JInt(add_bits(bits, 1, 0)))

\* an array that leaves out the items that failed
deserialize_array_skip(m, data) ==
    LET items == [i \in 1..Len(data.v) |-> deserialize(m, data.v[i])]
        good == SelectSeq(items, LAMBDA r : ~Failed(r))
    IN  Ok(JList([i \in 1..Len(good) |-> good[i].val]))

deserialize_array(m, data) ==
    LET items == [i \in 1..Len(data.v) |-> deserialize(m, data.v[i])]
        bad == FirstFailed(items)
    IN  IF bad # 0 THEN items[bad]
        ELSE Ok(JList([i \in 1..Len(items) |-> items[i].val]))

deserialize_measured(m, data) == deserialize(m, data)

\* a default handler that hands the payload back
deserialize_default_identity(m, data) == Ok(data)

deserialize_default(m, data) == Raise("NotImplementedError", <<>>)

\* func = self.d_table.get(typ, self.deserialize_default)
dispatch(typ, m, data) ==
    IF typ \notin d_table THEN deserialize_default(m, data) ELSE
    CASE typ = "Bool" -> deserialize_classical(m, data)
      [] typ = "Q_Bool" -> deserialize_q_bool(m, data)
      [] typ \in {"Q_U8", "Q_U16", "Q_U32"} -> deserialize_q_unsigned(m, data)
      [] typ = "Array" -> deserialize_array(m, data)
      [] typ = "Measured" -> deserialize_measured(m, data)

deserialize(m, v) ==
    LET kv == split_value(v)
    IN  dispatch(kv[1], m, kv[2])

---------------------------------------------------------------------------
(* Inputs: binding values and measurement maps *)

\* a tagged value {"<typ>": data}
Tagged(typ, data) == JObj(<< <<typ, data>> >>)

SeqsUpTo(S, n) == UNION {[1..k -> S] : k \in 0..n}

UnsignedTags == {"Q_U8", "Q_U16", "Q_U32"}

UnsignedValues ==
    {Tagged(typ, JList([i \in 1..Len(qs) |-> JInt(qs[i])])) :
        typ \in UnsignedTags, qs \in SeqsUpTo(Qubits, MaxBits)}

\* a tag the dispatch table does not hold
UnknownLeaf == Tagged("Q_U64", JList(<<JInt(0)>>))

\* the leaves of nested values refer to the lowest and the highest qubit
Leaves ==
    {Tagged("Bool", JInt(1)), UnknownLeaf,
     Tagged("Q_Bool", JInt(0)), Tagged("Q_Bool", JInt(MaxQubit)),
     Tagged("Q_U16", JList(<<JInt(MaxQubit), JInt(0)>>))}

\* values nested at most d deep; an array holds at most two items, of which
\* at most one is itself nested
RECURSIVE Nested(_)
Nested(d) ==
    IF d = 0 THEN Leaves
    ELSE LET S == Nested(d - 1)
         IN  Leaves
             \cup {Tagged("Measured", x) : x \in S}
             \cup {Tagged("Array", JList(<<>>))}
             \cup {Tagged("Array", JList(<<x>>)) : x \in S}
             \cup {Tagged("Array", JList(<<x, l>>)) : x \in S, l \in Leaves}
             \cup {Tagged("Array", JList(<<l, x>>)) : x \in S, l \in Leaves}

BindingValues ==
    UnsignedValues \cup Nested(MaxDepth)
    \cup {Tagged("Q_Bool", JInt(q)) : q \in Qubits}
    \cup {Tagged("Bool", JBool(TRUE))}

\* the declared names
Names == {"x", "y", "z"}

\* the values bound to names in an object file
BoundValues ==
    Leaves \cup {Tagged("Measured", Tagged("Q_Bool", JInt(MaxQubit))),
                 Tagged("Array", JList(<<Tagged("Q_Bool", JInt(0)), UnknownLeaf>>))}

\* dicts of at most MaxBindings names, each name once
BindingDicts ==
    {d \in SeqsUpTo(Names \X BoundValues, MaxBindings) :
        \A i, j \in 1..Len(d) : d[i][1] = d[j][1] => i = j}

\* one shot leaves an outcome for some of the qubits
MeasurementMaps == UNION {[D -> BOOLEAN] : D \in SUBSET Qubits}

---------------------------------------------------------------------------
(* Specification of Deserializer.deserialize on one value *)

InitDeserialize ==
    /\ value \in BindingValues
    /\ measurements \in MeasurementMaps
    /\ result = Pending
    /\ pc = "ready"
    /\ emitted = None
    /\ obj_code = <<>>
    /\ self = None
    /\ bindings = <<>>
    /\ LOADED_DEPENDENCIES = {}
    /\ installed = {}
    /\ deps = <<>>

Deserialize ==
    /\ pc = "ready"
    /\ result' = deserialize(measurements, value)
    /\ pc' = "done"
    /\ UNCHANGED <<fileVars, runVars, depVars>>

SpecDeserialize == InitDeserialize /\ [][Deserialize]_vars

---------------------------------------------------------------------------
(* CirqRunnable.run (compilation.py) *)

\* {name: des.deserialize(value) for name, value in self.bindings.items()}
run(b, m) ==
    LET each == [i \in 1..Len(b) |-> deserialize(m, b[i][2])]
        bad == FirstFailed(each)
    IN  IF bad # 0 THEN each[bad]
        ELSE Ok(JObj([i \in 1..Len(b) |-> <<b[i][1], each[i].val>>]))

InitRun ==
    /\ bindings \in BindingDicts
    /\ measurements = << >>
    /\ result = Pending
    /\ pc = "ready"
    /\ emitted = None
    /\ obj_code = <<>>
    /\ self = None
    /\ value = None
    /\ LOADED_DEPENDENCIES = {}
    /\ installed = {}
    /\ deps = <<>>

\* sample_circuit() returns the outcomes of one shot, then the bindings are
\* deserialized against them
Run ==
    /\ pc = "ready"
    /\ \E m \in MeasurementMaps :
         /\ measurements' = m
         /\ result' = run(bindings, m)
    /\ pc' = "done"
    /\ UNCHANGED <<fileVars, value, bindings, depVars>>

SpecRun == InitRun /\ [][Run]_vars

---------------------------------------------------------------------------
(* Inputs: object files as the compiler writes them *)

\* json.dumps with compact separators
RECURSIVE dumps(_)
RECURSIVE dumps_items(_, _)
RECURSIVE dumps_members(_, _)
dumps_items(items, i) ==
    IF i > Len(items) THEN <<>>
    ELSE (IF i > 1 THEN <<Ch(",")>> ELSE <<>>)
         \o dumps(items[i]) \o dumps_items(items, i + 1)
dumps_members(pairs, i) ==
    IF i > Len(pairs) THEN <<>>
    ELSE (IF i > 1 THEN <<Ch(",")>> ELSE <<>>)
         \o <<Str(pairs[i][1]), Ch(":")>> \o dumps(pairs[i][2])
         \o dumps_members(pairs, i + 1)
dumps(v) ==
    CASE v.t = "int" -> <<Num(v.v)>>
      [] v.t = "bool" -> <<Kw(IF v.v THEN "true" ELSE "false")>>
      [] v.t = "null" -> <<Kw("null")>>
      [] v.t = "str" -> <<Str(v.v)>>
      [] v.t = "list" -> <<Ch("[")>> \o dumps_items(v.v, 1) \o <<Ch("]")>>
      [] v.t = "obj" -> <<Ch("{")>> \o dumps_members(v.v, 1) \o <<Ch("}")>>

\* what precedes the header on the first line: nothing, the comment marker
\* ("/" read as one character, "//" as QASM writes it), a marker and one
\* more slash, or another character
Markers == {<<Slash>>, <<Slash, Slash>>}
Prefixes == Markers \cup {<<>>, <<Slash, Slash, Slash>>, <<Ch("#")>>}

\* headers: a JSON object of bindings (as such, or after a blank), the
\* cut-off beginning of such an object, or an object with a slip in it
HeaderValues ==
    {Tagged("Bool", JBool(TRUE)), UnknownLeaf,
     Tagged("Q_U16", JList(<<JInt(MaxQubit), JInt(0)>>)),
     Tagged("Array", JList(<<Tagged("Q_Bool", JInt(0)), UnknownLeaf>>))}
HeaderDicts ==
    {d \in SeqsUpTo(Names \X HeaderValues, MaxBindings) :
        \A i, j \in 1..Len(d) : d[i][1] = d[j][1] => i = j}
ObjectHeaders ==
    {[form |-> "object", data |-> JObj(d), text |-> dumps(JObj(d))] :
        d \in HeaderDicts}
    \cup {[form |-> "object", data |-> JObj(d),
           text |-> <<Ch(" ")>> \o dumps(JObj(d))] :
            d \in {b \in HeaderDicts : Len(b) <= 1}}
GarbledHeaders ==
    UNION {{[form |-> "garbled", data |-> None, text |-> SubSeq(dumps(JObj(d)), 1, k)] :
                k \in 0..(Len(dumps(JObj(d))) - 1)} :
            d \in {b \in HeaderDicts : Len(b) <= 1}}
    \cup {[form |-> "garbled", data |-> None, text |-> txt] :
            txt \in {<<Ch("{"), Str("x"), Ch(":"), Kw("True"), Ch("}")>>,
                     <<Ch("{"), Str("x"), Ch(":"), Num(1), Ch(","), Ch("}")>>,
                     <<Ch("{"), Ch("}"), Ch("}")>>,
                     <<Ch("{"), Str("x"), Num(1), Ch("}")>>,
                     <<Ch("["), Num(1), Ch(","), Ch("]")>>}}
Headers == ObjectHeaders \cup GarbledHeaders

\* assembly text: characters and line separators
Bodies == SeqsUpTo({Ch("q"), NL}, MaxBody)

\* the parts of an object file; without a line separator there is no body
Emitted ==
    {[prefix |-> p, header |-> h, sep |-> TRUE, body |-> b] :
        p \in Prefixes, h \in Headers, b \in Bodies}
    \cup {[prefix |-> p, header |-> h, sep |-> FALSE, body |-> <<>>] :
            p \in Prefixes, h \in Headers}

Assemble(e) ==
    e.prefix \o e.header.text \o (IF e.sep THEN <<NL>> \o e.body ELSE <<>>)

---------------------------------------------------------------------------
(* Specification of ObjectFile: construction from the object code, to_qasm *)

InitObjectFile ==
    /\ emitted \in Emitted
    /\ obj_code = Assemble(emitted)
    /\ self = None
    /\ result = Pending
    /\ pc = "compiled"
    /\ value = None
    /\ bindings = <<>>
    /\ measurements = << >>
    /\ LOADED_DEPENDENCIES = {}
    /\ installed = {}
    /\ deps = <<>>

\* ObjectFile.__init__: the instance exists only if __parse_asm returns
Construct ==
    /\ pc = "compiled"
    /\ LET parsed == parse_asm(obj_code)
       IN  IF Failed(parsed)
           THEN /\ result' = parsed
                /\ self' = None
                /\ pc' = "failed"
           ELSE /\ result' = Ok(None)
                /\ self' = ObjectFile(parsed.val.v[1], parsed.val.v[2])
                /\ pc' = "constructed"
    /\ UNCHANGED <<emitted, obj_code, runVars, depVars>>

\* ObjectFile.to_qasm on the constructed instance
ToQasm ==
    /\ pc \in {"constructed", "returned"}
    /\ result' = to_qasm(self)
    /\ pc' = "returned"
    /\ UNCHANGED <<fileVars, runVars, depVars>>

NextObjectFile == Construct \/ ToQasm

SpecObjectFile == InitObjectFile /\ [][NextObjectFile]_vars

---------------------------------------------------------------------------
(* dependencies.py *)

\* DEPENDENCIES: the kind of each dependency
DEPENDENCIES ==
    [d \in {"cirq", "qiskit", "pylatex", "labber", "numpy", "__unsatisfiable__"} |->
        IF d = "__unsatisfiable__" THEN "UNSATISFIABLE" ELSE "PYTHON_PKG"]

\* load_dependency: import a Python package, do nothing for another kind
load_dependency(dep, loaded, importable) ==
    IF DEPENDENCIES[dep] = "PYTHON_PKG"
    THEN IF dep \in importable
         THEN [loaded |-> loaded \cup {dep}, out |-> Ok(None)]
         ELSE [loaded |-> loaded, out |-> Raise("ModuleNotFoundError", <<JStr(dep)>>)]
    ELSE [loaded |-> loaded, out |-> Ok(None)]

\* the function returned by require(*ds)(fn), called with ds[i..] still to
\* check: the set of loaded dependencies it leaves and the outcome of the call
RECURSIVE wrapped(_, _, _, _)
wrapped(ds, i, loaded, importable) ==
    IF i > Len(ds) THEN [loaded |-> loaded, out |-> Ok(JStr("fn"))]
    ELSE IF ds[i] \in loaded THEN wrapped(ds, i + 1, loaded, importable)
    ELSE LET r == load_dependency(ds[i], loaded, importable)
         IN  IF r.out.kind = "ModuleNotFoundError"
             THEN [loaded |-> r.loaded,
                   out |-> Raise("MissingDependencyError", <<JStr(ds[i])>>)]
             ELSE wrapped(ds, i + 1, r.loaded, importable)

PythonPackages == {d \in DOMAIN DEPENDENCIES : DEPENDENCIES[d] = "PYTHON_PKG"}

InitDependencies ==
    /\ LOADED_DEPENDENCIES = {}
    /\ installed \in SUBSET PythonPackages
    /\ deps = <<>>
    /\ result = Pending
    /\ pc = "imported"
    /\ emitted = None
    /\ obj_code = <<>>
    /\ self = None
    /\ value = None
    /\ bindings = <<>>
    /\ measurements = << >>

\* a call of a function decorated with require(*ds)
CallRequiring ==
    /\ \E ds \in SeqsUpTo(DOMAIN DEPENDENCIES, MaxDeps) :
         LET r == wrapped(ds, 1, LOADED_DEPENDENCIES, installed)
         IN  /\ deps' = ds
             /\ LOADED_DEPENDENCIES' = r.loaded
             /\ result' = r.out
    /\ pc' = "called"
    /\ UNCHANGED <<fileVars, runVars, installed>>

SpecDependencies == InitDependencies /\ [][CallRequiring]_vars

---------------------------------------------------------------------------
(* Properties of Deserializer.deserialize *)

Tag(v) == split_value(v)[1]
Payload(v) == split_value(v)[2]
Bit(b) == IF b THEN 1 ELSE 0

\* the leaves of v that deserialize reaches, in the order it reaches them: a
\* qubit reference [unknown |-> FALSE, q |-> index] or a tag outside d_table
RECURSIVE Events(_)
RECURSIVE EventsOfItems(_, _)
EventsOfItems(items, i) ==
    IF i > Len(items) THEN <<>>
    ELSE Events(items[i]) \o EventsOfItems(items, i + 1)
Events(v) ==
    CASE Tag(v) = "Bool" -> <<>>
      [] Tag(v) = "Q_Bool" -> <<[unknown |-> FALSE, q |-> Payload(v).v]>>
      [] Tag(v) \in UnsignedTags ->
            [i \in 1..Len(Payload(v).v) |->
                [unknown |-> FALSE, q |-> Payload(v).v[i].v]]
      [] Tag(v) = "Array" -> EventsOfItems(Payload(v).v, 1)
      [] Tag(v) = "Measured" -> Events(Payload(v))
      [] OTHER -> <<[unknown |-> TRUE, q |-> 0]>>

\* the positions in ev of the unknown tags, and of the qubits m lacks
Unknowns(ev) == {i \in 1..Len(ev) : ev[i].unknown}
Missing(ev, m) == {i \in 1..Len(ev) : ~ev[i].unknown /\ ev[i].q \notin DOMAIN m}
Min(S) == CHOOSE i \in S : \A j \in S : i <= j

\* C1: a Q_U8, Q_U16 or Q_U32 binding whose qubits are all measured
\* deserializes to the integer whose bit k is the outcome of the k-th qubit of
\* the payload, whatever the qubit's index, and the three tags agree.
C1_UnsignedPositional ==
    (pc = "done" /\ Tag(value) \in UnsignedTags
        /\ Missing(Events(value), measurements) = {})
    => LET qs == Payload(value).v
           n == Len(qs)
       IN  /\ result.kind = "ok"
           /\ result.val.t = "int"
           /\ result.val.v \in 0..(Shl1(n) - 1)
           /\ \A k \in 0..(n - 1) :
                (result.val.v \div Shl1(k)) % 2 = Bit(measurements[qs[k + 1].v])
           /\ \A typ \in UnsignedTags :
                deserialize(measurements, Tagged(typ, Payload(value))) = result

\* qubits 2, 0, 1 measured true, false, true give 1 + 0 + 4
C1_Witness ==
    /\ pc = "done"
    /\ value = Tagged("Q_U8", JList(<<JInt(2), JInt(0), JInt(1)>>))
    /\ measurements = (0 :> FALSE @@ 1 :> TRUE @@ 2 :> TRUE)
    /\ result = Ok(JInt(5))

\* C2: a binding value without unknown tags that refers to a qubit the
\* measurement map lacks fails with the missing-measurement error (Python's
\* KeyError) naming the first such qubit; it never returns a value.
C2_MissingMeasurement ==
    pc = "done"
    => LET ev == Events(value)
           missing == Missing(ev, measurements)
       IN  (Unknowns(ev) = {} /\ missing # {})
           => result = Raise("KeyError", <<JInt(ev[Min(missing)].q)>>)

\* a missing qubit two levels down, after a measured one
C2_Witness ==
    /\ pc = "done"
    /\ value = Tagged("Array", JList(<<Tagged("Q_Bool", JInt(0)),
                  Tagged("Measured", Tagged("Q_Bool", JInt(MaxQubit)))>>))
    /\ 0 \in DOMAIN measurements
    /\ MaxQubit \notin DOMAIN measurements
    /\ result = Raise("KeyError", <<JInt(MaxQubit)>>)

\* C3 as stated: a value holding an unknown tag, at the top or nested, fails
\* with the unsupported-binding-type error (NotImplementedError).
C3_UnknownTagAlwaysUnsupported ==
    (pc = "done" /\ Unknowns(Events(value)) # {})
    => result.kind = "NotImplementedError"

\* C3 amended: a value holding an unknown tag never deserializes to a value;
\* it fails with NotImplementedError when the unknown tag is reached before
\* any unmeasured qubit, and with the KeyError of the first unmeasured qubit
\* otherwise.
C3_UnknownTagFails ==
    pc = "done"
    => LET ev == Events(value)
           missing == Missing(ev, measurements)
       IN  Unknowns(ev) # {}
           => IF missing = {} \/ Min(Unknowns(ev)) < Min(missing)
              THEN result = Raise("NotImplementedError", <<>>)
              ELSE result = Raise("KeyError", <<JInt(ev[Min(missing)].q)>>)

\* an unknown tag nested in an array, behind a measured qubit
C3_Witness ==
    /\ pc = "done"
    /\ value = Tagged("Array", JList(<<Tagged("Measured", Tagged("Q_Bool", JInt(0))),
                                       UnknownLeaf>>))
    /\ 0 \in DOMAIN measurements
    /\ result = Raise("NotImplementedError", <<>>)

\* C8: an Array deserializes to the sequence of its items' values, in order
\* and of the same length, or fails when an item fails (with the error of
\* the first item that fails); it never returns a shorter array.
C8_ArrayElementwise ==
    (pc = "done" /\ Tag(value) = "Array")
    => LET items == Payload(value).v
           each == [i \in 1..Len(items) |-> deserialize(measurements, items[i])]
       IN  IF \A i \in 1..Len(items) : each[i].kind = "ok"
           THEN /\ result.kind = "ok"
                /\ result.val.t = "list"
                /\ Len(result.val.v) = Len(items)
                /\ \A i \in 1..Len(items) : result.val.v[i] = each[i].val
           ELSE /\ result.kind # "ok"
                /\ \E i \in 1..Len(items) :
                     /\ result = each[i]
                     /\ \A j \in 1..(i - 1) : each[j].kind = "ok"

\* [Bool(1), Q_Bool(0)] with qubit 0 measured false gives [1, False]
C8_Witness ==
    /\ pc = "done"
    /\ value = Tagged("Array", JList(<<Tagged("Bool", JInt(1)),
                                       Tagged("Q_Bool", JInt(0))>>))
    /\ measurements = (0 :> FALSE)
    /\ result = Ok(JList(<<JInt(1), JBool(FALSE)>>))

\* an array with a failing item fails as a whole
C8_WitnessFails ==
    /\ pc = "done"
    /\ value = Tagged("Array", JList(<<Tagged("Bool", JInt(1)),
                                       Tagged("Q_Bool", JInt(0))>>))
    /\ measurements = << >>
    /\ result.kind = "KeyError"
---------------------------------------------------------------------------
(* Properties of ObjectFile *)

Built == pc \in {"constructed", "returned"}

\* the object file is a marker, a JSON object, a line separator and a body
WellFormed(e) == e.prefix \in Markers /\ e.header.form = "object" /\ e.sep

\* a binding of the header object carries a tag outside d_table, at the top or nested
HeaderHasUnknownTag(e) ==
    /\ e.header.form = "object"
    /\ \E i \in 1..Len(e.header.data.v) :
          Unknowns(Events(e.header.data.v[i][2])) # {}

\* C4: a text whose first line is the comment marker followed by a JSON
\* object, and that holds a line separator, parses: the bindings are the
\* decoded object and the body is all that follows the first separator,
\* later separators included.
C4_ParseHeaderAndBody ==
    (pc # "compiled" /\ WellFormed(emitted))
    => /\ Built
       /\ self.v.__bindings = emitted.header.data
       /\ self.v.__qasm = PyText(emitted.body)

\* //{"x":{"Bool":true}} and a body of two lines
C4_Witness ==
    /\ pc = "constructed"
    /\ emitted.prefix = <<Slash, Slash>>
    /\ emitted.header.text = <<Ch("{"), Str("x"), Ch(":"), Ch("{"), Str("Bool"),
                               Ch(":"), Kw("true"), Ch("}"), Ch("}")>>
    /\ self.v.__bindings = JObj(<< <<"x", Tagged("Bool", JBool(TRUE))>> >>)
    /\ self.v.__qasm = PyText(<<Ch("q"), NL>>)

\* C5: a header without the comment marker, a header that is not valid
\* JSON, or a text without a line separator makes the construction fail
\* with a decode error, and no ObjectFile exists.
C5_MalformedRejected ==
    (pc # "compiled"
        /\ (\/ emitted.prefix \in {<<>>, <<Ch("#")>>}
            \/ emitted.header.form = "garbled"
            \/ ~emitted.sep))
    => /\ pc = "failed"
       /\ self = None
       /\ result.kind \in {"ValueError", "JSONDecodeError"}

\* what the parser does reject: no separator, a header that is not JSON, a
\* first character that is neither a slash nor the start of a JSON value
ParseRejects ==
    (pc # "compiled"
        /\ (\/ emitted.prefix = <<Ch("#")>>
            \/ emitted.header.form = "garbled"
            \/ ~emitted.sep))
    => /\ pc = "failed"
       /\ self = None
       /\ result.kind \in {"ValueError", "JSONDecodeError"}

\* C6: an object file, well formed but for a binding of its header that
\* carries a tag outside the known set, fails at parse time with the
\* unsupported-binding-type error; no ObjectFile holds the unknown tag with
\* its raw payload.
C6_UnknownTagRejectedAtParse ==
    (pc # "compiled" /\ HeaderHasUnknownTag(emitted) /\ WellFormed(emitted))
    => /\ pc = "failed"
       /\ self = None
       /\ result.kind = "NotImplementedError"

\* what the parser does with a well-formed file: the unknown tag and its
\* payload are in the bindings of the ObjectFile
ParseKeepsUnknownTag ==
    (pc # "compiled" /\ HeaderHasUnknownTag(emitted) /\ WellFormed(emitted))
    => Built /\ self.v.__bindings = emitted.header.data

\* C9: to_qasm on a constructed ObjectFile returns the assembly body
\* obtained at construction, on every call and without raising.
C9_ToQasmReturnsBody ==
    pc = "returned" => result = Ok(self.v.__qasm)

\* what to_qasm does: the attribute it reads was never set
ToQasmRaises ==
    pc = "returned" => result = Raise("AttributeError", <<JStr("__obj_code")>>)

---------------------------------------------------------------------------
(* Properties of CirqRunnable.run *)

\* the outcome of deserializing each binding on its own
EachBinding ==
    [i \in 1..Len(bindings) |-> deserialize(measurements, bindings[i][2])]

\* C7: run is all-or-nothing: with every binding deserialized the result
\* holds exactly the binding names, each with its deserialized value; when a
\* binding fails, run fails with the first error, annotated with the name
\* of the binding that triggered it.
C7_AllOrNothingAnnotated ==
    pc = "done"
    => LET each == EachBinding
           bad == FirstFailed(each)
       IN  IF bad = 0
           THEN result = Ok(JObj([i \in 1..Len(bindings) |->
                                    <<bindings[i][1], each[i].val>>]))
           ELSE /\ result.kind = each[bad].kind
                /\ \E k \in 1..Len(result.args) :
                      result.args[k] = JStr(bindings[bad][1])

\* what run does: all-or-nothing, the first error as the deserializer raised it
RunAllOrNothing ==
    pc = "done"
    => LET each == EachBinding
           bad == FirstFailed(each)
       IN  IF bad = 0
           THEN result = Ok(JObj([i \in 1..Len(bindings) |->
                                    <<bindings[i][1], each[i].val>>]))
           ELSE result = each[bad]
---------------------------------------------------------------------------
(* Properties of dependencies.require *)

\* C10: the '__unsatisfiable__' dependency always fails to load: a call of
\* a function that requires it raises MissingDependencyError and never runs
\* the function, and '__unsatisfiable__' is never in LOADED_DEPENDENCIES.
C10_UnsatisfiableAlwaysFails ==
    /\ "__unsatisfiable__" \notin LOADED_DEPENDENCIES
    /\ (pc = "called" /\ \E i \in 1..Len(deps) : deps[i] = "__unsatisfiable__")
       => result.kind = "MissingDependencyError"

\* what holds of the code: the dependency is never recorded as loaded, and a
\* function that requires nothing else runs
UnsatisfiableNeverLoaded == "__unsatisfiable__" \notin LOADED_DEPENDENCIES
UnsatisfiableAloneRuns ==
    (pc = "called" /\ deps = <<"__unsatisfiable__">>) => result = Ok(JStr("fn"))

===========================================================================
